---- MODULE Spec2Model ----
(***************************************************************************)
(* versionbump: a command line tool that keeps a project's version in two  *)
(* places, pyproject.toml (project.version) and _version.py (__version__). *)
(*                                                                         *)
(* Text is modelled as a tuple of one-character strings, so that split,    *)
(* int(), the regular expression and the f-string formatting are computed  *)
(* the way Python computes them.                                           *)
(*                                                                         *)
(* Modelled: main() of versionbump/__main__.py and of the older script     *)
(* versionbump/versionbump/__main__.py (they differ in how a version array *)
(* is read), bump_version_cli(), and the two bump functions.  Not          *)
(* modelled: operating system errors of open(), documents that are not     *)
(* TOML, and version fields that are neither text nor an array of text.    *)
(***************************************************************************)
EXTENDS Integers, Sequences, FiniteSets, TLC

(***************************************************************************)
(* Python text primitives                                                  *)
(***************************************************************************)

DigitChars == <<"0", "1", "2", "3", "4", "5", "6", "7", "8", "9">>

IsDigit(c) == \E i \in DOMAIN DigitChars : DigitChars[i] = c

DigitVal(c) == (CHOOSE i \in DOMAIN DigitChars : DigitChars[i] = c) - 1

Whitespace == {" ", "\n"}

\* s[i:] and s[:i] of Python, 1-based here: the text from position i on,
\* and the text before position i.
From(s, i) == SubSeq(s, i, Len(s))

Before(s, i) == SubSeq(s, 1, i - 1)

\* The position of the first occurrence of character c in s, 0 when absent.
Find(s, c) ==
    IF \E i \in DOMAIN s : s[i] = c
    THEN CHOOSE i \in DOMAIN s : s[i] = c /\ \A j \in 1..(i - 1) : s[j] # c
    ELSE 0

\* str.split(sep) for a one-character separator.
RECURSIVE split(_, _)
split(s, sep) ==
    IF Find(s, sep) = 0
    THEN <<s>>
    ELSE <<Before(s, Find(s, sep))>> \o split(From(s, Find(s, sep) + 1), sep)

\* str.strip(): whitespace removed at both ends.
RECURSIVE lstrip(_)
lstrip(s) == IF s # <<>> /\ s[1] \in Whitespace THEN lstrip(Tail(s)) ELSE s

RECURSIVE rstrip(_)
rstrip(s) ==
    IF s # <<>> /\ s[Len(s)] \in Whitespace THEN rstrip(Before(s, Len(s))) ELSE s

strip(s) == lstrip(rstrip(s))

\* str.lower() on the letters the prompt's answers use.
LowerChar(c) == CASE c = "Y" -> "y" [] c = "N" -> "n" [] c = "E" -> "e"
                  [] c = "S" -> "s" [] OTHER -> c

lower(s) == [i \in DOMAIN s |-> LowerChar(s[i])]

AllDigits(s) == s # <<>> /\ \A i \in DOMAIN s : IsDigit(s[i])

\* The value of a run of decimal digits.
RECURSIVE DigitsValue(_)
DigitsValue(s) ==
    IF s = <<>> THEN 0
    ELSE 10 * DigitsValue(Before(s, Len(s))) + DigitVal(s[Len(s)])

\* int(text): surrounding whitespace is ignored and one sign is accepted;
\* anything else raises ValueError.
Unsigned(s) == IF strip(s) # <<>> /\ strip(s)[1] \in {"+", "-"}
               THEN Tail(strip(s)) ELSE strip(s)

IntParses(s) == AllDigits(Unsigned(s))

int(s) == IF strip(s)[1] = "-" THEN 0 - DigitsValue(Unsigned(s))
          ELSE DigitsValue(Unsigned(s))

\* str(n) of an integer, as an f-string prints it.
RECURSIVE NatToText(_)
NatToText(n) ==
    IF n < 10 THEN <<DigitChars[n + 1]>>
    ELSE NatToText(n \div 10) \o <<DigitChars[(n % 10) + 1]>>

IntToText(n) == IF n < 0 THEN <<"-">> \o NatToText(0 - n) ELSE NatToText(n)

Dot == <<".">>

DevMark == <<"-", "d", "e", "v", ".">>

(***************************************************************************)
(* re.match(r"^(\d+\.\d+\.\d+)(?:-dev\.(\d+))?$", text)                    *)
(* "$" also matches just before one final newline.                         *)
(***************************************************************************)

Chomp(s) == IF s # <<>> /\ s[Len(s)] = "\n" THEN Before(s, Len(s)) ELSE s

\* group 1 of a match: the text before the first "-".
BaseOf(s) == IF Find(s, "-") = 0 THEN s ELSE Before(s, Find(s, "-"))

\* what follows group 1.
SuffixOf(s) == From(s, Len(BaseOf(s)) + 1)

IsRelease(b) ==
    /\ Len(split(b, ".")) = 3
    /\ \A i \in 1..3 : AllDigits(split(b, ".")[i])

FullMatch(s) ==
    /\ IsRelease(BaseOf(s))
    /\ \/ SuffixOf(s) = <<>>
       \/ /\ Len(SuffixOf(s)) > Len(DevMark)
          /\ Before(SuffixOf(s), Len(DevMark) + 1) = DevMark
          /\ AllDigits(From(SuffixOf(s), Len(DevMark) + 1))

VersionMatch(s) == FullMatch(s) \/ FullMatch(Chomp(s))

\* The text the groups are taken from: "$" is tried at the end of the text
\* first, so the final newline is dropped only when it has to be.
Matched(s) == IF FullMatch(s) THEN s ELSE Chomp(s)

MatchBase(s) == BaseOf(Matched(s))

MatchHasDev(s) == SuffixOf(Matched(s)) # <<>>

MatchDev(s) == From(SuffixOf(Matched(s)), Len(DevMark) + 1)

(***************************************************************************)
(* The bump calculator.  A call either returns text or raises.             *)
(***************************************************************************)

Return(v) == [raised |-> FALSE, value |-> v]

Raise == [raised |-> TRUE, value |-> <<>>]

Triple(major, minor, patch) ==
    IntToText(major) \o Dot \o IntToText(minor) \o Dot \o IntToText(patch)

\* bump_version_logic with the minor branch forgetting "patch = 0"
bump_version_logic_keeps_patch(version, level) ==
    LET base == split(version, "-")[1]
        parts == split(base, ".")
    IN  IF Len(parts) # 3 \/ \E i \in DOMAIN parts : ~IntParses(parts[i])
        THEN Raise
        ELSE LET major == int(parts[1])
                 minor == int(parts[2])
                 patch == int(parts[3])
             IN  CASE level = "major" -> Return(Triple(major + 1, 0, 0))
                   [] level = "minor" -> Return(Triple(major, minor + 1, patch))
                   [] OTHER -> Return(Triple(major, minor, patch + 1))

bump_version_logic(version, level) ==
    LET base == split(version, "-")[1]
        parts == split(base, ".")
    IN  IF Len(parts) # 3 \/ \E i \in DOMAIN parts : ~IntParses(parts[i])
        THEN Raise
        ELSE LET major == int(parts[1])
                 minor == int(parts[2])
                 patch == int(parts[3])
             IN  CASE level = "major" -> Return(Triple(major + 1, 0, 0))
                   [] level = "minor" -> Return(Triple(major, minor + 1, 0))
                   [] OTHER -> Return(Triple(major, minor, patch + 1))

\* bump_prerelease starting the counter at 1 instead of 0
bump_prerelease_from_one(version) ==
    IF ~VersionMatch(version)
    THEN Raise
    ELSE LET base == MatchBase(version)
             next_dev == IF MatchHasDev(version)
                         THEN DigitsValue(MatchDev(version)) + 1
                         ELSE 1
         IN  Return(base \o DevMark \o IntToText(next_dev))

\* bump_prerelease forgetting the "+ 1"
bump_prerelease_no_increment(version) ==
    IF ~VersionMatch(version)
    THEN Raise
    ELSE LET base == MatchBase(version)
             next_dev == IF MatchHasDev(version)
                         THEN DigitsValue(MatchDev(version))
                         ELSE 0
         IN  Return(base \o DevMark \o IntToText(next_dev))

bump_prerelease(version) ==
    IF ~VersionMatch(version)
    THEN Raise
    ELSE LET base == MatchBase(version)
             next_dev == IF MatchHasDev(version)
                         THEN DigitsValue(MatchDev(version)) + 1
                         ELSE 0
         IN  Return(base \o DevMark \o IntToText(next_dev))

(***************************************************************************)
(* The two stores.                                                         *)
(*                                                                         *)
(* pyproject: whether pyproject.toml exists and what it holds.  shape is   *)
(* "noproject" (no [project] table), "noversion" ([project] without a      *)
(* version), "str" (items = <<the version>>) or "list" (items = the        *)
(* entries of a version array).  other stands for every other field of the *)
(* document.                                                               *)
(*                                                                         *)
(* versionFiles: for each place of the tree where a _version.py may be,    *)
(* whether it exists and its whole content.                                *)
(***************************************************************************)

None == <<"None">>

Paths == {"_version.py", "pkg/_version.py"}

DefaultPath == "_version.py"

NoDoc == [exists |-> FALSE, shape |-> "noproject", items |-> <<>>, other |-> "absent"]

Doc(shape, items) ==
    [exists |-> TRUE, shape |-> shape, items |-> items, other |-> "name, authors"]

\* {"project": {"version": "0.1.0"}} dumped to a new file.
DefaultDoc ==
    [exists |-> TRUE, shape |-> "str", items |-> << <<"0", ".", "1", ".", "0">> >>,
     other |-> "empty"]

NoFile == [exists |-> FALSE, content |-> <<>>]

File(content) == [exists |-> TRUE, content |-> content]

find_version_file(files) ==
    IF \E p \in Paths : files[p].exists
    THEN {p \in Paths : files[p].exists}
    ELSE {"none"}

\* write_version_file printing the value without its quotes
write_version_file_unquoted(new_version) ==
    File(<<"_", "_", "v", "e", "r", "s", "i", "o", "n", "_", "_", " ", "=", " ">>
         \o new_version \o <<"\n">>)

write_version_file(new_version) ==
    File(<<"_", "_", "v", "e", "r", "s", "i", "o", "n", "_", "_", " ", "=", " ", "\"">>
         \o new_version \o <<"\"", "\n">>)

\* data["project"]["version"], the last entry when it is a list.
read_version_from_toml(doc) ==
    CASE doc.shape = "str" -> Return(doc.items[1])
      [] doc.shape = "list" /\ doc.items # <<>> -> Return(doc.items[Len(doc.items)])
      [] OTHER -> Raise

\* The older script returns the field as it is; a list is no text, and the
\* calls that follow (re.match, version.split) raise on it.
script_read_version_from_toml(doc) ==
    CASE doc.shape = "str" -> Return(doc.items[1])
      [] OTHER -> Raise

\* The document after the write; a document without a [project] table
\* raises KeyError and is left as it was.
TomlWritable(doc) == doc.shape # "noproject"

write_version_to_toml(doc, new_version) ==
    IF TomlWritable(doc)
    THEN [doc EXCEPT !.shape = "str", !.items = <<new_version>>]
    ELSE doc

(***************************************************************************)
(* State                                                                   *)
(***************************************************************************)

VARIABLES
    pyproject,      \* pyproject.toml
    versionFiles,   \* the _version.py files of the tree
    pc,             \* where the running invocation stands
    entry,          \* the entry point that runs: main, script_main, bump_version_cli
    args,           \* the parsed arguments
    found,          \* what find_version_file() returned ("none": None)
    version_file,   \* the path the constant is written to
    old_version,
    new_version,
    answer,         \* what input() returned, None before the prompt is answered
    exit_code,      \* the process's exit code, -1 while it runs
    start,          \* both stores as they were when the invocation started
    runs,           \* invocations started so far
    fn              \* a direct call of one bump function and its result

vars == <<pyproject, versionFiles, pc, entry, args, found, version_file,
          old_version, new_version, answer, exit_code, start, runs, fn>>

store == <<pyproject, versionFiles>>

locals == <<found, version_file, old_version, new_version, answer>>

\* how many invocations one behaviour runs one after the other
MaxRuns == 2

Levels == {"patch", "minor", "major"}

\* the values --init is given in the model: a release, a prerelease, a text
\* that is no version, and the empty text (--init "")
InitValues ==
    { <<"2", ".", "0", ".", "0">>,
      <<"2", ".", "0", ".", "0", "-", "d", "e", "v", ".", "3">>,
      <<"v", "2">>,
      <<>> }

NoArgs == [level |-> "none", prerelease |-> FALSE, initGiven |-> FALSE, init |-> <<>>]

\* argparse: level is one of the three choices or None, --prerelease a flag,
\* --init any text or None.
ArgSpace ==
    { [level |-> l, prerelease |-> p, initGiven |-> g, init |-> i] :
        l \in Levels \cup {"none"}, p \in BOOLEAN, g \in BOOLEAN, i \in InitValues }

Arguments == { a \in ArgSpace : ~a.initGiven => a.init = <<>> }

\* what the user may type at the prompt
Answers ==
    { <<"y">>, <<" ", "Y", "\n">>, <<>>, <<"n">>, <<"y", "e", "s">> }

\* the versions a document may hold when the tool is first run
StoredVersions ==
    { <<"1", ".", "2", ".", "3">>,
      <<"1", ".", "2", ".", "3", "-", "d", "e", "v", ".", "0">>,
      <<"0", "1", ".", "9", ".", "0", "9", "-", "d", "e", "v", ".", "0", "0", "7">>,
      <<"1", ".", "2", ".", "3", "-", "r", "c", "1">>,
      <<"1", ".", "2">> }

InitDocs ==
    {NoDoc, Doc("noproject", <<>>), Doc("noversion", <<>>)}
    \cup { Doc("str", <<v>>) : v \in StoredVersions }
    \cup { Doc("list", << <<"1", ".", "0", ".", "0">>, <<"1", ".", "2", ".", "3">> >>) }

OldLine == write_version_file(<<"0", ".", "0", ".", "1">>)

InitFiles == [Paths -> {NoFile, OldLine}]

FnIdle == [op |-> "idle", version |-> <<>>, level |-> "none", result |-> Raise]

Terminal == {"Done", "Aborted", "Error"}

Init ==
    /\ pyproject \in InitDocs
    /\ versionFiles \in InitFiles
    /\ pc = "Idle"
    /\ entry = "none"
    /\ args = NoArgs
    /\ found = "none"
    /\ version_file = "none"
    /\ old_version = None
    /\ new_version = None
    /\ answer = None
    /\ exit_code = -1
    /\ start = [pyproject |-> pyproject, versionFiles |-> versionFiles]
    /\ runs = 0
    /\ fn = FnIdle

(***************************************************************************)
(* main(), step by step                                                    *)
(***************************************************************************)

Mains == {"main", "script_main"}

\* A process starts: parser.parse_args().
Invoke ==
    /\ pc = "Idle"
    /\ runs < MaxRuns
    /\ \E e \in Mains, a \in Arguments :
        /\ entry' = e
        /\ args' = a
    /\ pc' = "CheckArguments"
    /\ found' = "none"
    /\ version_file' = "none"
    /\ old_version' = None
    /\ new_version' = None
    /\ answer' = None
    /\ exit_code' = -1
    /\ start' = [pyproject |-> pyproject, versionFiles |-> versionFiles]
    /\ runs' = runs + 1
    /\ UNCHANGED <<store, fn>>

\* bool(args.init): None and the empty text are both false.
InitSet(a) == a.initGiven /\ a.init # <<>>

\* [bool(args.level), args.prerelease, bool(args.init)]
set_args(a) ==
    (IF a.level # "none" THEN 1 ELSE 0)
    + (IF a.prerelease THEN 1 ELSE 0)
    + (IF InitSet(a) THEN 1 ELSE 0)

Exit(code) ==
    /\ pc' = (IF code = 0 THEN "Done" ELSE "Error")
    /\ exit_code' = code

CheckArguments ==
    /\ pc = "CheckArguments"
    /\ IF set_args(args) > 1
       THEN Exit(1)
       ELSE pc' = "ResolveMetadataDoc" /\ UNCHANGED exit_code
    /\ UNCHANGED <<store, entry, args, locals, start, runs, fn>>

\* if not pyproject.exists(): dump the default document
ensure_default(doc) == IF doc.exists THEN doc ELSE DefaultDoc

ResolveMetadataDoc ==
    /\ pc = "ResolveMetadataDoc"
    /\ pyproject' = ensure_default(pyproject)
    /\ pc' = "ResolveConstantFile"
    /\ UNCHANGED <<versionFiles, entry, args, locals, exit_code, start, runs, fn>>

\* version_file = find_version_file() or Path("_version.py")
target(f) == IF f = "none" THEN DefaultPath ELSE f

ResolveConstantFile ==
    /\ pc = "ResolveConstantFile"
    /\ \E f \in find_version_file(versionFiles) :
        /\ found' = f
        /\ version_file' = target(f)
    /\ pc' = "ComputeNewVersion"
    /\ UNCHANGED <<store, entry, args, old_version, new_version, answer,
                   exit_code, start, runs, fn>>

ReadVersion(e, doc) ==
    IF e = "script_main" THEN script_read_version_from_toml(doc)
    ELSE read_version_from_toml(doc)

\* The branch that computes new_version from the stored one; main checks the
\* grammar only before a prerelease bump.
Computed(a, old) ==
    IF a.prerelease
    THEN IF ~VersionMatch(old) THEN Raise ELSE bump_prerelease(old)
    ELSE bump_version_logic(old, IF a.level = "none" THEN "patch" ELSE a.level)

ComputeNewVersion ==
    /\ pc = "ComputeNewVersion"
    /\ IF InitSet(args)
       THEN IF ~VersionMatch(args.init)
            THEN Exit(1) /\ UNCHANGED <<old_version, new_version>>
            ELSE /\ new_version' = args.init
                 /\ old_version' = None
                 /\ pc' = "WriteMetadata"
                 /\ UNCHANGED exit_code
       ELSE LET r == ReadVersion(entry, pyproject) IN
            IF r.raised
            THEN Exit(1) /\ UNCHANGED <<old_version, new_version>>
            ELSE /\ old_version' = r.value
                 /\ IF Computed(args, r.value).raised
                    THEN Exit(1) /\ UNCHANGED new_version
                    ELSE /\ new_version' = Computed(args, r.value).value
                         /\ pc' = "Confirm"
                         /\ UNCHANGED exit_code
    /\ UNCHANGED <<store, entry, args, found, version_file, answer, start, runs, fn>>

\* the test written as: if confirm == "n"
DeclinedOnlyOnN(confirm) == confirm = <<"n">>

\* the test written as: if not confirm.startswith("y")
DeclinedUnlessStartsWithY(confirm) == confirm = <<>> \/ confirm[1] # "y"

\* confirm = input(...).strip().lower(); if confirm != "y": abort
Declined(confirm) == confirm # <<"y">>

Confirm ==
    /\ pc = "Confirm"
    /\ \E typed \in Answers :
        /\ answer' = typed
        /\ IF Declined(lower(strip(typed)))
           THEN pc' = "Aborted" /\ exit_code' = 0
           ELSE pc' = "WriteMetadata" /\ UNCHANGED exit_code
    /\ UNCHANGED <<store, entry, args, found, version_file, old_version,
                   new_version, start, runs, fn>>

\* try: write_version_to_toml(...) -- a KeyError is caught and reported
WriteMetadata ==
    /\ pc = "WriteMetadata"
    /\ pyproject' = write_version_to_toml(pyproject, new_version)
    /\ IF TomlWritable(pyproject)
       THEN pc' = "WriteConstant" /\ UNCHANGED exit_code
       ELSE Exit(1)
    /\ UNCHANGED <<versionFiles, entry, args, locals, start, runs, fn>>

WriteConstant ==
    /\ pc = "WriteConstant"
    /\ versionFiles' = [versionFiles EXCEPT ![version_file] = write_version_file(new_version)]
    /\ Exit(0)
    /\ UNCHANGED <<pyproject, entry, args, locals, start, runs, fn>>

(***************************************************************************)
(* bump_version_cli(level, prerelease, init): the same steps without the   *)
(* prompt, as one call.  f is what find_version_file() returns in it.      *)
(***************************************************************************)

CliResult(raised, doc, files, old, new) ==
    [raised |-> raised, pyproject |-> doc, versionFiles |-> files,
     old_version |-> old, new_version |-> new]

\* lines 84-100: the new version, or the ValueError
CliComputed(a, old) ==
    IF a.initGiven
    THEN IF VersionMatch(a.init) THEN Return(a.init) ELSE Raise
    ELSE IF ~VersionMatch(old) THEN Raise
    ELSE IF a.prerelease THEN bump_prerelease(old)
    ELSE bump_version_logic(old, IF a.level = "none" THEN "patch" ELSE a.level)

bump_version_cli(doc, files, f, a) ==
    LET doc1 == ensure_default(doc)
        read == IF doc.exists THEN read_version_from_toml(doc)
                ELSE Return(DefaultDoc.items[1])
    IN  IF read.raised
        THEN CliResult(TRUE, doc1, files, None, None)
        ELSE LET new == CliComputed(a, read.value) IN
             IF new.raised
             THEN CliResult(TRUE, doc1, files, read.value, None)
             ELSE IF ~TomlWritable(doc1)
             THEN CliResult(TRUE, doc1, files, read.value, new.value)
             ELSE CliResult(FALSE,
                            write_version_to_toml(doc1, new.value),
                            [files EXCEPT ![target(f)] = write_version_file(new.value)],
                            read.value, new.value)

BumpVersionCli ==
    /\ pc = "Idle"
    /\ runs < MaxRuns
    /\ \E a \in Arguments, f \in find_version_file(versionFiles) :
        LET r == bump_version_cli(pyproject, versionFiles, f, a) IN
        /\ args' = a
        /\ found' = f
        /\ version_file' = target(f)
        /\ pyproject' = r.pyproject
        /\ versionFiles' = r.versionFiles
        /\ old_version' = r.old_version
        /\ new_version' = r.new_version
        /\ pc' = (IF r.raised THEN "Error" ELSE "Done")
    /\ entry' = "bump_version_cli"
    /\ answer' = None
    /\ exit_code' = -1
    /\ start' = [pyproject |-> pyproject, versionFiles |-> versionFiles]
    /\ runs' = runs + 1
    /\ UNCHANGED fn

\* The invocation is over and nothing of it is left but the two stores.
Finish ==
    /\ pc \in Terminal
    /\ pc' = "Idle"
    /\ entry' = "none"
    /\ args' = NoArgs
    /\ found' = "none"
    /\ version_file' = "none"
    /\ old_version' = None
    /\ new_version' = None
    /\ answer' = None
    /\ exit_code' = -1
    /\ start' = [pyproject |-> pyproject, versionFiles |-> versionFiles]
    /\ UNCHANGED <<store, runs, fn>>

Next ==
    \/ Invoke
    \/ CheckArguments
    \/ ResolveMetadataDoc
    \/ ResolveConstantFile
    \/ ComputeNewVersion
    \/ Confirm
    \/ WriteMetadata
    \/ WriteConstant
    \/ BumpVersionCli
    \/ Finish

Spec == Init /\ [][Next]_vars

(***************************************************************************)
(* The bump functions called directly, on every text of FnVersions.        *)
(***************************************************************************)

Numerals == { <<"0">>, <<"1">>, <<"9">>, <<"1", "2">>, <<"0", "0", "7">> }

Releases == { a \o Dot \o b \o Dot \o c : a \in Numerals, b \in Numerals, c \in Numerals }

Prereleases == { r \o DevMark \o n : r \in Releases, n \in {<<"0">>, <<"9">>, <<"0", "1", "9">>} }

\* texts the grammar rejects, some of which int() still reads
Malformed ==
    { <<>>, <<"1", ".", "2">>, <<"1", ".", "2", ".", "3", ".", "4">>,
      <<"1", ".", "2", ".", "3", "-", "r", "c", "1">>,
      <<"1", ".", "2", ".", "3", "-">>,
      <<"1", ".", "2", ".", "3", "-", "d", "e", "v", ".">>,
      <<"1", ".", "2", ".", "3", "-", "d", "e", "v", ".", "1", "-", "2">>,
      <<" ", "1", ".", "2", ".", "3">>,
      <<"+", "1", ".", "2", ".", "3">>,
      <<"1", ".", "2", ".", "3", "\n", "\n">>,
      <<"v", "1", ".", "2", ".", "3">>,
      <<"1", ".", ".", "3">>,
      <<"n", "o", "t", "-", "a", "-", "v", "e", "r", "s", "i", "o", "n">> }

\* a final newline still matches, "$" being what it is
Newlined ==
    { <<"1", ".", "2", ".", "3", "\n">>,
      <<"1", ".", "2", ".", "3", "-", "d", "e", "v", ".", "4", "\n">> }

FnVersions == Releases \cup Prereleases \cup Newlined \cup Malformed

InitFn ==
    /\ pyproject = NoDoc
    /\ versionFiles = [p \in Paths |-> NoFile]
    /\ pc = "Idle"
    /\ entry = "none"
    /\ args = NoArgs
    /\ found = "none"
    /\ version_file = "none"
    /\ old_version = None
    /\ new_version = None
    /\ answer = None
    /\ exit_code = -1
    /\ start = [pyproject |-> pyproject, versionFiles |-> versionFiles]
    /\ runs = 0
    /\ \E v \in FnVersions, l \in Levels \cup {"default"} :
        fn = [op |-> "idle", version |-> v, level |-> l, result |-> Raise]

cli == <<pyproject, versionFiles, pc, entry, args, found, version_file,
         old_version, new_version, answer, exit_code, start, runs>>

\* level="patch" is the default of the parameter
CallBumpVersionLogic ==
    /\ fn.op = "idle"
    /\ fn' = [fn EXCEPT !.op = "bump_version_logic",
                        !.result = bump_version_logic(fn.version,
                                      IF fn.level = "default" THEN "patch" ELSE fn.level)]
    /\ UNCHANGED cli

CallBumpPrerelease ==
    /\ fn.op = "idle"
    /\ fn' = [fn EXCEPT !.op = "bump_prerelease",
                        !.result = bump_prerelease(fn.version)]
    /\ UNCHANGED cli

NextFn == CallBumpVersionLogic \/ CallBumpPrerelease

SpecFn == InitFn /\ [][NextFn]_vars

(***************************************************************************)
(* Properties                                                              *)
(***************************************************************************)

\* how many of the three operation selectors the command line carries
Supplied(a) ==
    (IF a.level # "none" THEN 1 ELSE 0)
    + (IF a.prerelease THEN 1 ELSE 0)
    + (IF a.initGiven THEN 1 ELSE 0)

\* an answer that is "y" once trimmed, whatever its case
Affirmative(typed) == typed # None /\ lower(strip(typed)) = <<"y">>

DeclinedRun == entry \in Mains /\ pc \in Terminal /\ answer # None /\ ~Affirmative(answer)

\* C1 as stated: an invocation whose prompt got anything but "y" ends with
\* pyproject.toml and every _version.py exactly as they were when it started,
\* whether or not pyproject.toml existed then.
C1_DeclineLeavesStoresAsFound ==
    DeclinedRun => pyproject = start.pyproject /\ versionFiles = start.versionFiles

\* C1 amended: an invocation whose prompt got anything but "y" ends with every
\* _version.py as it was, and with pyproject.toml as it was when it existed at
\* the start; when it did not exist, it is left created with version 0.1.0.
C1_DeclineLeavesVersionsAsFound ==
    DeclinedRun =>
        /\ versionFiles = start.versionFiles
        /\ IF start.pyproject.exists
           THEN pyproject = start.pyproject
           ELSE /\ pyproject.exists
                /\ pyproject.shape = "str"
                /\ pyproject.items = << <<"0", ".", "1", ".", "0">> >>

C1_Witness ==
    /\ pc = "Aborted"
    /\ entry = "main"
    /\ answer = <<>>
    /\ ~start.pyproject.exists
    /\ pyproject.exists

\* C2: an invocation given more than one of level, --prerelease and --init
\* ends in Error with exit code 1, having touched neither store and without
\* prompting.
C2_ConflictFailsBeforeAnyIO ==
    (entry \in Mains /\ Supplied(args) > 1 /\ pc # "CheckArguments") =>
        /\ pc = "Error"
        /\ exit_code = 1
        /\ pyproject = start.pyproject
        /\ versionFiles = start.versionFiles
        /\ answer = None

\* the version text a single-operation invocation works from, once it has it
WorkedFrom == IF args.initGiven THEN args.init ELSE old_version

PastCompute ==
    pc \in {"Confirm", "WriteMetadata", "WriteConstant", "Done", "Aborted", "Error"}

\* --init with a value, or no --init at all (main takes --init "" for no
\* --init, which is not the case these properties are about)
PlainOperation(a) == a.initGiven => a.init # <<>>

\* C3: a single-operation invocation that works from a text outside the
\* grammar ends in Error with a non-zero exit code; it neither proposes nor
\* writes a new version.
C3_TextOutsideGrammarIsRejected ==
    (/\ entry \in Mains
     /\ Supplied(args) <= 1
     /\ PlainOperation(args)
     /\ PastCompute
     /\ WorkedFrom # None
     /\ ~VersionMatch(WorkedFrom)) =>
        /\ pc = "Error"
        /\ exit_code # 0
        /\ new_version = None
        /\ versionFiles = start.versionFiles

\* the numbers a text of the grammar stands for; pre is -1 without a suffix
Number(s, i) == DigitsValue(split(MatchBase(s), ".")[i])

Pre(s) == IF MatchHasDev(s) THEN DigitsValue(MatchDev(s)) ELSE -1

Key(s) == <<Number(s, 1), Number(s, 2), Number(s, 3), Pre(s)>>

\* C4: on a text of the grammar, bump_version_logic returns a release without
\* suffix whose numbers are (major+1, 0, 0) for major, (major, minor+1, 0) for
\* minor and (major, minor, patch+1) for patch, the default.
C4_ReleaseBump ==
    (fn.op = "bump_version_logic" /\ VersionMatch(fn.version)) =>
        /\ ~fn.result.raised
        /\ FullMatch(fn.result.value)
        /\ Key(fn.result.value) =
             CASE fn.level = "major" -> <<Number(fn.version, 1) + 1, 0, 0, -1>>
               [] fn.level = "minor" ->
                    <<Number(fn.version, 1), Number(fn.version, 2) + 1, 0, -1>>
               [] OTHER ->
                    <<Number(fn.version, 1), Number(fn.version, 2),
                      Number(fn.version, 3) + 1, -1>>

C4_Witness ==
    /\ fn.op = "bump_version_logic"
    /\ fn.level = "minor"
    /\ fn.version = <<"1", ".", "9", ".", "9", "-", "d", "e", "v", ".", "9">>
    /\ fn.result = Return(<<"1", ".", "1", "0", ".", "0">>)

\* C5: on a text of the grammar, bump_prerelease returns the same release
\* numbers with the suffix -dev.0 when the text had none and -dev.(N+1) when
\* it had -dev.N; on any other text it raises and returns nothing.
C5_PrereleaseBump ==
    fn.op = "bump_prerelease" =>
        IF VersionMatch(fn.version)
        THEN /\ ~fn.result.raised
             /\ FullMatch(fn.result.value)
             /\ \A i \in 1..3 : Number(fn.result.value, i) = Number(fn.version, i)
             /\ Pre(fn.result.value) = Pre(fn.version) + 1
        ELSE fn.result.raised

C5_Witness ==
    /\ fn.op = "bump_prerelease"
    /\ fn.version = <<"1", ".", "9", ".", "0", "-", "d", "e", "v", ".", "9">>
    /\ fn.result = Return(<<"1", ".", "9", ".", "0", "-", "d", "e", "v", ".", "1", "0">>)

\* C6: an invocation that ends Done leaves project.version a text V and the
\* located _version.py holding exactly the line __version__ = "V"; V is the
\* version the invocation announced, and the --init value when one was given
\* alone and is of the grammar.
C6_DoneStoresAgree ==
    (entry \in Mains /\ pc = "Done") =>
        /\ exit_code = 0
        /\ pyproject.exists
        /\ pyproject.shape = "str"
        /\ Len(pyproject.items) = 1
        /\ pyproject.items[1] = new_version
        /\ versionFiles[version_file].exists
        /\ versionFiles[version_file].content =
             <<"_", "_", "v", "e", "r", "s", "i", "o", "n", "_", "_", " ", "=", " ", "\"">>
             \o pyproject.items[1] \o <<"\"", "\n">>
        /\ (args.initGiven /\ Supplied(args) = 1 /\ VersionMatch(args.init))
              => pyproject.items[1] = args.init

C6_Witness ==
    /\ entry = "main"
    /\ pc = "Done"
    /\ ~start.pyproject.exists
    /\ \A p \in Paths : ~start.versionFiles[p].exists
    /\ args.init = <<"2", ".", "0", ".", "0">>
    /\ pyproject.items = << <<"2", ".", "0", ".", "0">> >>
    /\ versionFiles["_version.py"].exists

\* a step of main that writes the new version to one of the stores
WritesNewVersion ==
    /\ entry \in Mains
    /\ pc \in {"WriteMetadata", "WriteConstant"}
    /\ <<pyproject, versionFiles>>' # <<pyproject, versionFiles>>

\* C7 as stated: whatever the operation, --init included, the new version is
\* written only after the prompt was answered "y" in the same invocation.
C7_EveryWriteIsConfirmed ==
    [][WritesNewVersion => Affirmative(answer)]_vars

\* C7 amended: in a release or prerelease bump the new version is written
\* only after the prompt was answered "y" in the same invocation; an --init
\* invocation writes without prompting at all.
C7_BumpWritesAreConfirmed ==
    [][WritesNewVersion =>
         IF args.initGiven /\ args.init # <<>>
         THEN answer = None
         ELSE Affirmative(answer)]_vars

C7_Witness ==
    /\ entry = "main"
    /\ pc = "WriteConstant"
    /\ args.prerelease
    /\ answer = <<" ", "Y", "\n">>
    /\ pyproject # start.pyproject

\* C8: on a store whose document is absent or holds a version text, and for a
\* single operation, bump_version_cli leaves both stores as main does when the
\* prompt is answered "y", and raises exactly when main ends in Error.
C8_CliAgreesWithMain ==
    (/\ entry = "main"
     /\ pc \in {"Done", "Error"}
     /\ Supplied(args) <= 1
     /\ PlainOperation(args)
     /\ (~start.pyproject.exists \/ start.pyproject.shape = "str")) =>
        LET r == bump_version_cli(start.pyproject, start.versionFiles, found, args)
        IN  /\ r.pyproject = pyproject
            /\ r.versionFiles = versionFiles
            /\ (r.raised <=> (pc = "Error"))

\* a numeral printed as a plain integer
Plain(n) == n = <<"0">> \/ (n # <<>> /\ n[1] # "0")

Canonical(s) ==
    /\ FullMatch(s)
    /\ \A i \in 1..3 : Plain(split(MatchBase(s), ".")[i])
    /\ MatchHasDev(s) => Plain(MatchDev(s))

\* C9: on a text of the grammar, leading zeros included, both bump functions
\* return a text all of whose numbers are printed without leading zeros.
C9_ResultsAreCanonical ==
    (fn.op \in {"bump_version_logic", "bump_prerelease"} /\ VersionMatch(fn.version)) =>
        ~fn.result.raised /\ Canonical(fn.result.value)

Less(a, b) ==
    \E i \in 1..4 : a[i] < b[i] /\ \A j \in 1..(i - 1) : a[j] = b[j]

BumpedFromGrammar ==
    /\ entry \in Mains
    /\ pc = "Done"
    /\ ~args.initGiven
    /\ start.pyproject.exists
    /\ start.pyproject.shape = "str"
    /\ VersionMatch(start.pyproject.items[1])

\* C10: a successful bump (release or prerelease, no --init) of a stored
\* version of the grammar stores a version of the grammar that is strictly
\* greater on (major, minor, patch, prerelease), no prerelease ranking lowest.
C10_BumpsOnlyIncrease ==
    BumpedFromGrammar =>
        /\ pyproject.shape = "str"
        /\ VersionMatch(pyproject.items[1])
        /\ Less(Key(start.pyproject.items[1]), Key(pyproject.items[1]))

C10_Witness ==
    /\ BumpedFromGrammar
    /\ runs = 2
    /\ args.prerelease
    /\ start.pyproject.items = << <<"1", ".", "2", ".", "4">> >>
    /\ pyproject.items = << <<"1", ".", "2", ".", "4", "-", "d", "e", "v", ".", "0">> >>

====
